---- MODULE Spec2Model ----
(***************************************************************************)
(* Model of the offline upload queue of I-m-emo-now                        *)
(* (utils/uploadQueue.ts over the upload_queue table of utils/database.ts).*)
(* Every await of the source is a suspension point: the operation is       *)
(* issued by one step, takes effect in the store / network at a later      *)
(* step, and the continuation runs at a third one.                         *)
(***************************************************************************)
EXTENDS Integers, Sequences, FiniteSets, TLC

\* ---- bounds of the model ------------------------------------------------
MaxItems == 2        \* number of distinct item ids producers may use
MaxTicks == 2        \* number of clock ticks (of retryDelayMs each)
MaxSubs == 1         \* live NetInfo subscriptions (initialize calls outstanding)
MaxPresses == 1      \* times the operator presses "Retry" on the history screen
MaxPageItems == 7    \* ids of the table a pass pages through (more than a page)

\* ---- program constants --------------------------------------------------
maxRetries == 3
retryDelayMs == 5000
BATCH_SIZE == 5

NULL == -1
TickMs == retryDelayMs
MaxTime == MaxTicks * TickMs

VARIABLES
    now,              \* Date.now()
    connected,        \* what NetInfo reports
    stub,             \* behaviour of the two transfer functions
    store,            \* rows of table upload_queue, by id
    queue,            \* UploadQueue.queue (in-memory Map), by id
    isProcessing,     \* UploadQueue.isProcessing
    networkListener,  \* UploadQueue.networkListener is non-null
    subs,             \* number of live NetInfo subscriptions
    retryTimer,       \* UploadQueue.retryTimer
    enq,              \* the addToQueue call in flight
    init,             \* the initialize call in flight
    passPc,           \* position of the processQueue call in flight
    passNow,          \* processQueue: const now
    offset,           \* processQueue: let offset
    page,             \* processQueue: dbItems still to be filtered/processed
    cur,              \* processItem: the item object being processed
    alias,            \* queue.get(cur.id) is still the object `cur`
    netRes,           \* processItem: result of NetInfo.fetch()
    pendWrite,        \* updateUploadQueueStatus call in flight of the pass
    metaCalls,        \* uploadSessionMetadata invocations, by id
    videoCalls,       \* uploadVideoFile invocations, by id
    passOnline,       \* history: NetInfo reported connected during this pass
    retryAt,          \* history: item.next_retry_at as last assigned by processItem
    ret,              \* the API call that returned last, and how
    rm,               \* the removeFromQueue store delete in flight
    clr,              \* the clearQueue call in flight
    readRes,          \* what the last read (getQueueItems, ...) returned
    escaped,          \* a rejection of processQueue nobody handles has occurred
    xferRes,          \* what the two transfers of the attempt in flight reported
    liveTimers,       \* number of setTimeout timers pending in the runtime
    pendingUploads,   \* HistoryScreen: state pendingUploads (rows last loaded)
    retry,            \* HistoryScreen: the handleRetryAll call in flight
    passLog           \* history: rows ready when the pass started, items it attempted (paged tables)

vars == <<now, connected, stub, store, queue, isProcessing, networkListener,
          subs, retryTimer, enq, init, passPc, passNow, offset, page, cur,
          alias, netRes, pendWrite, metaCalls, videoCalls, passOnline,
          retryAt, ret, rm, clr, readRes, escaped, xferRes, liveTimers,
          pendingUploads, retry, passLog>>

passVars == <<passPc, passNow, offset, page, cur, alias, netRes, pendWrite>>

apiVars == <<ret, rm, clr, readRes, escaped>>

screenVars == <<pendingUploads, retry>>

\* the ids of the rows the table can hold
Ids == DOMAIN store

\* ---- records ------------------------------------------------------------
Statuses == {"pending", "uploading", "completed", "failed"}
StubModes == {"succeed", "fail", "videoFailsOnce", "any"}

NoRow ==
    [id |-> 0, status |-> "absent", retry_count |-> 0, error_message |-> "null",
     created_at |-> 0, next_retry_at |-> 0, uploaded_at |-> NULL,
     video_uri |-> FALSE]

NoTimer == [armed |-> FALSE, delay |-> 0, at |-> 0]
\* prev (history): the entry of the Map that queue.set of the call replaced
NoEnq == [pc |-> "idle", item |-> NoRow, prev |-> NoRow]
NoInit == [pc |-> "idle", records |-> <<>>, connected |-> FALSE]
NoWrite ==
    [status |-> "none", retry_count |-> NULL, error_message |-> "undefined",
     delay |-> 0]
NoRet == [op |-> "none", result |-> "none", attempt |-> 0]
Ret(op, result) == [op |-> op, result |-> result, attempt |-> 0]
NoRm == [pc |-> "idle", id |-> 0]
\* held (history): the ids in the Map when clearQueue was called
NoClr == [pc |-> "idle", held |-> {}]
NoRead == [op |-> "none", id |-> 0, items |-> {}, count |-> 0]
NoXfer == [done |-> FALSE, meta |-> FALSE, video |-> FALSE]
NoRetry == [pc |-> "idle", items |-> {}, presses |-> 0]
NoLog == [ready |-> {}, attempted |-> <<>>]

HasRow(t, id) == t[id].status # "absent"
RowIds(t) == {id \in Ids : HasRow(t, id)}

Min(a, b) == IF a < b THEN a ELSE b

RECURSIVE Pow2(_)
Pow2(n) == IF n <= 0 THEN 1 ELSE 2 * Pow2(n - 1)

\* ---- the durable store (utils/database.ts) ------------------------------

\* WHERE status IN ('pending', 'failed')
PendingFilter(status) == status \in {"pending", "failed"}

\* mutant: ORDER BY created_at DESC
RECURSIVE Ascending_NewestFirst(_, _)
Ascending_NewestFirst(t, S) ==
    IF S = {} THEN {<<>>}
    ELSE LET firsts == {id \in S : \A other \in S :
                                        t[id].created_at >= t[other].created_at}
         IN  UNION {{<<id>> \o rest : rest \in Ascending_NewestFirst(t, S \ {id})} :
                       id \in firsts}

\* ORDER BY created_at ASC: every order of the rows S that is ascending in
\* created_at (rows with equal created_at come in an unspecified order)
RECURSIVE Ascending(_, _)
Ascending(t, S) ==
    IF S = {} THEN {<<>>}
    ELSE LET firsts == {id \in S : \A other \in S :
                                        t[id].created_at <= t[other].created_at}
         IN  UNION {{<<id>> \o rest : rest \in Ascending(t, S \ {id})} : id \in firsts}

\* the orders in which the query can return the rows it selects
Orderings(t) == Ascending(t, {id \in Ids : PendingFilter(t[id].status)})

\* LIMIT ? OFFSET ?  (limit = 0: `if (limit)` is false, no LIMIT clause)
Slice(rows, limit, off) ==
    IF limit = 0 THEN rows
    ELSE SubSeq(rows, off + 1, Min(Len(rows), off + limit))

\* the results getPendingUploads(limit, offset) can return on table t
getPendingUploads(t, limit, off) ==
    {Slice([i \in 1..Len(s) |-> t[s[i]]], limit, off) : s \in Orderings(t)}

\* updateUploadQueueStatus(id, status, retryCount?, errorMessage?) at time tm;
\* retryCount = NULL and errorMessage = "undefined" stand for omitted arguments
updateUploadQueueStatus(t, id, status, retryCount, errorMessage, tm) ==
    IF ~HasRow(t, id) THEN t
    ELSE [t EXCEPT ![id] =
            [@ EXCEPT !.status = status,
                      !.retry_count = IF retryCount = NULL THEN @ ELSE retryCount,
                      !.error_message =
                          IF errorMessage = "undefined" THEN @ ELSE errorMessage,
                      !.uploaded_at = IF status = "completed" THEN tm ELSE @]]

\* ---- helpers of UploadQueue ---------------------------------------------

\* updateItemStatus(id, status, errorMessage?) on the in-memory map q
updateItemStatus(q, id, status, errorMessage) ==
    IF ~HasRow(q, id) THEN q
    ELSE [q EXCEPT ![id] =
            [@ EXCEPT !.status = status,
                      !.error_message =
                          IF errorMessage = "undefined" THEN @ ELSE errorMessage]]

\* mutant: the delay does not grow with the retry count
BackoffDelay_Flat(retryCount) == retryDelayMs

\* const delay = this.retryDelayMs * Math.pow(2, item.retry_count - 1)
BackoffDelay(retryCount) == retryDelayMs * Pow2(retryCount - 1)

\* dbItem.next_retry_at <= now
Eligible(rec, tm) == rec.next_retry_at <= tm

\* mutant: the response of the video transfer is not checked
IsSuccess_MetaOnly(metaOk, videoOk, hasVideo) == metaOk

\* the two checks after Promise.all: neither throws
IsSuccess(metaOk, videoOk, hasVideo) == metaOk /\ (~hasVideo \/ videoOk)

\* the rows of table t a pass starting at time tm is to process: selected by
\* the query of getPendingUploads and kept by the filter of processQueue
Ready(t, tm) == {id \in Ids : PendingFilter(t[id].status) /\ Eligible(t[id], tm)}

\* passLog (history) is kept for the passes over a table that can hold more
\* than one page, where the order and the coverage of a pass are in question
Paged == Cardinality(Ids) > BATCH_SIZE

\* the log of a pass that starts at time tm over table t
LogStart(t, tm) ==
    IF Paged THEN [ready |-> Ready(t, tm), attempted |-> <<>>] ELSE NoLog

\* the log l after the attempt of item id has started
LogAttempt(l, id) ==
    IF Paged THEN [l EXCEPT !.attempted = Append(@, id)] ELSE l

\* mutant: processQueue does not test isProcessing
GuardBlocks_Off == FALSE

\* the guard at the top of processQueue
GuardBlocks == isProcessing

\* mutant: every trigger starts a pass, whether one is running or not
processQueue_NoGuard ==
    /\ isProcessing' = TRUE
    /\ passPc' = "query"
    /\ passNow' = now
    /\ offset' = 0
    /\ passLog' = LogStart(store, now)

\* processQueue() up to its first await, as called by a trigger
processQueue ==
    IF GuardBlocks
    THEN UNCHANGED <<isProcessing, passPc, passNow, offset, passLog>>
    ELSE /\ isProcessing' = TRUE
         /\ passPc' = "query"
         /\ passNow' = now
         /\ offset' = 0
         /\ passLog' = LogStart(store, now)

\* the entry of the Map for id stops being the object processItem holds
Unalias(id) == alias' = (alias /\ ~(passPc # "idle" /\ cur.id = id))

\* ---- environment: clock, network, transfer stubs -------------------------

\* The clock is observed through Date.now() only; what depends on its advance
\* is the retry timer, so it advances while an armed timer is not yet due.
Tick ==
    /\ now < MaxTime
    /\ retryTimer.armed /\ now < retryTimer.at + retryTimer.delay
    /\ now' = now + TickMs
    /\ UNCHANGED <<connected, stub, store, queue, isProcessing, networkListener,
                   subs, retryTimer, enq, init, passVars, metaCalls, videoCalls>>
    /\ UNCHANGED passOnline
    /\ UNCHANGED <<apiVars, retryAt>>
    /\ UNCHANGED <<xferRes, liveTimers, screenVars>>
    /\ UNCHANGED passLog

\* NetInfo reports a change; the callback of setupNetworkMonitoring runs if a
\* subscription is live
NetChange ==
    /\ connected' = ~connected
    /\ IF subs > 0 /\ connected' /\ ~isProcessing
       THEN processQueue
       ELSE UNCHANGED <<isProcessing, passPc, passNow, offset, passLog>>
    /\ UNCHANGED <<now, stub, store, queue, networkListener, subs, retryTimer,
                   enq, init, page, cur, alias, netRes, pendWrite, metaCalls,
                   videoCalls>>
    /\ passOnline' = IF isProcessing THEN (passOnline \/ connected')
                     ELSE (subs > 0 /\ connected')
    /\ UNCHANGED <<apiVars, retryAt>>
    /\ UNCHANGED <<xferRes, liveTimers, screenVars>>

\* what uploadSessionMetadata may report for item id
MetaOutcomes(id) ==
    CASE stub = "succeed" -> {TRUE}
      [] stub = "fail" -> {FALSE}
      [] stub = "videoFailsOnce" -> {TRUE}
      [] OTHER -> BOOLEAN

\* what uploadVideoFile may report for item id (its calls counted so far
\* include the one in flight)
VideoOutcomes(id) ==
    CASE stub = "succeed" -> {TRUE}
      [] stub = "fail" -> {FALSE}
      [] stub = "videoFailsOnce" -> {videoCalls[id] > 1}
      [] OTHER -> BOOLEAN

\* ---- addToQueue ---------------------------------------------------------

\* lines 73-88: build queueItem, queue.set, issue the INSERT
EnqueueCall ==
    /\ enq.pc = "idle"
    /\ \E id \in Ids, video \in BOOLEAN :
         /\ ~HasRow(store, id) /\ ~HasRow(queue, id)
         /\ LET queueItem == [id |-> id, status |-> "pending", retry_count |-> 0,
                              error_message |-> "null", created_at |-> now,
                              next_retry_at |-> 0, uploaded_at |-> NULL,
                              video_uri |-> video]
            IN  /\ queue' = [queue EXCEPT ![id] = queueItem]
                /\ enq' = [pc |-> "insert", item |-> queueItem, prev |-> queue[id]]
         /\ Unalias(id)
    /\ UNCHANGED <<now, connected, stub, store, isProcessing, networkListener,
                   subs, retryTimer, init, passPc, passNow, offset, page, cur,
                   netRes, pendWrite, metaCalls, videoCalls>>
    /\ UNCHANGED passOnline
    /\ UNCHANGED <<apiVars, retryAt>>
    /\ UNCHANGED <<xferRes, liveTimers, screenVars>>
    /\ UNCHANGED passLog

\* addToQueue called with the id of an item that is already queued or stored
\* (lines 73-88: queue.set replaces the entry of the Map, the INSERT is issued)
EnqueueAgainCall ==
    /\ enq.pc = "idle"
    /\ \E id \in Ids, video \in BOOLEAN :
         /\ HasRow(store, id) \/ HasRow(queue, id)
         /\ LET queueItem == [id |-> id, status |-> "pending", retry_count |-> 0,
                              error_message |-> "null", created_at |-> now,
                              next_retry_at |-> 0, uploaded_at |-> NULL,
                              video_uri |-> video]
            IN  /\ queue' = [queue EXCEPT ![id] = queueItem]
                /\ enq' = [pc |-> "insert", item |-> queueItem, prev |-> queue[id]]
         /\ Unalias(id)
    /\ UNCHANGED <<now, connected, stub, store, isProcessing, networkListener,
                   subs, retryTimer, init, passPc, passNow, offset, page, cur,
                   netRes, pendWrite, metaCalls, videoCalls>>
    /\ UNCHANGED passOnline
    /\ UNCHANGED <<apiVars, retryAt>>
    /\ UNCHANGED <<xferRes, liveTimers, screenVars>>
    /\ UNCHANGED passLog

\* addToUploadQueue: the INSERT runs; id is the PRIMARY KEY
InsertEffect ==
    /\ enq.pc = "insert"
    /\ IF HasRow(store, enq.item.id)
       THEN /\ enq' = [enq EXCEPT !.pc = "err"]
            /\ UNCHANGED store
       ELSE /\ store' = [store EXCEPT ![enq.item.id] = enq.item]
            /\ enq' = [enq EXCEPT !.pc = "ok"]
    /\ UNCHANGED <<now, connected, stub, queue, isProcessing, networkListener,
                   subs, retryTimer, init, passVars, metaCalls, videoCalls>>
    /\ UNCHANGED passOnline
    /\ UNCHANGED <<apiVars, retryAt>>
    /\ UNCHANGED <<xferRes, liveTimers, screenVars>>
    /\ UNCHANGED passLog

\* mutant: a failed insert leaves the item in memory
EnqueueResume_KeepsItem ==
    /\ enq.pc \in {"ok", "err"}
    /\ IF enq.pc = "ok"
       THEN processQueue
       ELSE UNCHANGED <<isProcessing, passPc, passNow, offset, passLog>>
    /\ enq' = NoEnq
    /\ UNCHANGED <<now, connected, stub, store, queue, alias, networkListener,
                   subs, retryTimer, init, page, cur, netRes, pendWrite,
                   metaCalls, videoCalls>>
    /\ passOnline' = IF isProcessing THEN passOnline ELSE (enq.pc = "ok" /\ connected)
    /\ ret' = Ret("addToQueue", IF enq.pc = "ok" THEN "resolved" ELSE "rejected")
    /\ UNCHANGED <<rm, clr, readRes, escaped, retryAt>>
    /\ UNCHANGED <<xferRes, liveTimers, screenVars>>

\* lines 89-98: the await returns (processQueue) or throws (queue.delete)
EnqueueResume ==
    /\ enq.pc \in {"ok", "err"}
    /\ IF enq.pc = "ok"
       THEN /\ processQueue
            /\ UNCHANGED <<queue, alias>>
       ELSE /\ queue' = [queue EXCEPT ![enq.item.id] = NoRow]
            /\ Unalias(enq.item.id)
            /\ UNCHANGED <<isProcessing, passPc, passNow, offset, passLog>>
    /\ enq' = NoEnq
    /\ UNCHANGED <<now, connected, stub, store, networkListener, subs,
                   retryTimer, init, page, cur, netRes, pendWrite, metaCalls,
                   videoCalls>>
    /\ passOnline' = IF isProcessing THEN passOnline ELSE (enq.pc = "ok" /\ connected)
    /\ ret' = Ret("addToQueue", IF enq.pc = "ok" THEN "resolved" ELSE "rejected")
    /\ UNCHANGED <<rm, clr, readRes, escaped, retryAt>>
    /\ UNCHANGED <<xferRes, liveTimers, screenVars>>

\* ---- initialize / cleanup -----------------------------------------------

\* initialize -> loadQueueFromDatabase: getPendingUploads() without limit
InitializeCall ==
    /\ init.pc = "idle"
    /\ subs < MaxSubs
    /\ \E records \in getPendingUploads(store, 0, 0) :
         init' = [pc |-> "loaded", records |-> records, connected |-> FALSE]
    /\ UNCHANGED <<now, connected, stub, store, queue, isProcessing,
                   networkListener, subs, retryTimer, enq, passVars, metaCalls,
                   videoCalls>>
    /\ UNCHANGED passOnline
    /\ UNCHANGED <<apiVars, retryAt>>
    /\ UNCHANGED <<xferRes, liveTimers, screenVars>>
    /\ UNCHANGED passLog

\* the loop of loadQueueFromDatabase over the records read
LoadedQueue(records) ==
    [id \in Ids |->
        IF \E i \in 1..Len(records) : records[i].id = id
        THEN records[CHOOSE i \in 1..Len(records) : records[i].id = id]
        ELSE NoRow]

\* the rows loadQueueFromDatabase resets to 'pending' in the store
ResetStore(t, records) ==
    [id \in Ids |->
        IF \E i \in 1..Len(records) :
              records[i].id = id /\ records[i].status = "uploading" /\ HasRow(t, id)
        THEN [t[id] EXCEPT !.status = "pending"]
        ELSE t[id]]

\* lines 340-352, then setupNetworkMonitoring and the issue of NetInfo.fetch
InitializeLoaded ==
    /\ init.pc = "loaded"
    /\ queue' = LoadedQueue(init.records)
    /\ store' = ResetStore(store, init.records)
    /\ alias' = FALSE
    /\ networkListener' = TRUE
    /\ subs' = subs + 1
    /\ init' = [init EXCEPT !.pc = "netfetch", !.records = <<>>]
    /\ UNCHANGED <<now, connected, stub, isProcessing, retryTimer, enq, passPc,
                   passNow, offset, page, cur, netRes, pendWrite, metaCalls,
                   videoCalls>>
    /\ UNCHANGED passOnline
    /\ UNCHANGED <<apiVars, retryAt>>
    /\ UNCHANGED <<xferRes, liveTimers, screenVars>>
    /\ UNCHANGED passLog

\* NetInfo.fetch() of initialize reads the network state
InitializeFetch ==
    /\ init.pc = "netfetch"
    /\ init' = [init EXCEPT !.pc = "fetched", !.connected = connected]
    /\ UNCHANGED <<now, connected, stub, store, queue, isProcessing,
                   networkListener, subs, retryTimer, enq, passVars, metaCalls,
                   videoCalls>>
    /\ UNCHANGED passOnline
    /\ UNCHANGED <<apiVars, retryAt>>
    /\ UNCHANGED <<xferRes, liveTimers, screenVars>>
    /\ UNCHANGED passLog

\* lines 38-41
InitializeResume ==
    /\ init.pc = "fetched"
    /\ IF init.connected
       THEN processQueue
       ELSE UNCHANGED <<isProcessing, passPc, passNow, offset, passLog>>
    /\ init' = NoInit
    /\ UNCHANGED <<now, connected, stub, store, queue, networkListener, subs,
                   retryTimer, enq, page, cur, alias, netRes, pendWrite,
                   metaCalls, videoCalls>>
    /\ passOnline' = IF isProcessing THEN passOnline ELSE (init.connected /\ connected)
    /\ ret' = Ret("initialize", "resolved")
    /\ UNCHANGED <<rm, clr, readRes, escaped, retryAt>>
    /\ UNCHANGED <<xferRes, liveTimers, screenVars>>

\* mutant: the armed timer is left pending
ClearArmedTimer_Skipped(n) == n

\* if (this.retryTimer) clearTimeout(this.retryTimer), on the number n of
\* timers pending in the runtime
ClearArmedTimer(n) == IF retryTimer.armed THEN n - 1 ELSE n

\* the item of the processItem call whose transfers are in flight (0: none)
AttemptInFlight == IF passPc = "xfer" THEN cur.id ELSE 0

\* mutant: cleanup also abandons the pass in flight
Cleanup_Aborts ==
    /\ networkListener \/ retryTimer.armed
    /\ networkListener' = FALSE
    /\ subs' = IF networkListener THEN subs - 1 ELSE subs
    /\ retryTimer' = NoTimer
    /\ isProcessing' = FALSE
    /\ passPc' = "idle"
    /\ passNow' = 0
    /\ offset' = 0
    /\ page' = <<>>
    /\ cur' = NoRow
    /\ alias' = FALSE
    /\ netRes' = FALSE
    /\ pendWrite' = NoWrite
    /\ passLog' = NoLog
    /\ UNCHANGED <<now, connected, stub, store, queue, enq, init, metaCalls,
                   videoCalls>>
    /\ passOnline' = FALSE
    /\ ret' = [Ret("cleanup", "resolved") EXCEPT !.attempt = AttemptInFlight]
    /\ UNCHANGED <<rm, clr, readRes, escaped, retryAt>>
    /\ liveTimers' = ClearArmedTimer(liveTimers)
    /\ UNCHANGED <<xferRes, screenVars>>

\* cleanup(): unsubscribe the listener held, clear the timer held
Cleanup ==
    /\ networkListener \/ retryTimer.armed
    /\ networkListener' = FALSE
    /\ subs' = IF networkListener THEN subs - 1 ELSE subs
    /\ retryTimer' = NoTimer
    /\ UNCHANGED <<now, connected, stub, store, queue, isProcessing, enq, init,
                   passVars, metaCalls, videoCalls>>
    /\ UNCHANGED passOnline
    /\ ret' = [Ret("cleanup", "resolved") EXCEPT !.attempt = AttemptInFlight]
    /\ UNCHANGED <<rm, clr, readRes, escaped, retryAt>>
    /\ liveTimers' = ClearArmedTimer(liveTimers)
    /\ UNCHANGED <<xferRes, screenVars>>
    /\ UNCHANGED passLog

\* ---- processQueue / processItem -----------------------------------------

\* scheduleQueueProcessing(delay): clear the armed timer, arm a new one
scheduleQueueProcessing(delay) == [armed |-> TRUE, delay |-> delay, at |-> now]

\* the setTimeout callback of scheduleQueueProcessing
TimerFire ==
    /\ retryTimer.armed
    /\ now >= retryTimer.at + retryTimer.delay
    /\ retryTimer' = NoTimer
    /\ processQueue
    /\ UNCHANGED <<now, connected, stub, store, queue, networkListener, subs,
                   enq, init, page, cur, alias, netRes, pendWrite, metaCalls,
                   videoCalls>>
    /\ passOnline' = IF isProcessing THEN passOnline ELSE connected
    /\ UNCHANGED <<apiVars, retryAt>>
    /\ liveTimers' = liveTimers - 1
    /\ UNCHANGED <<xferRes, screenVars>>

\* the for loop of processQueue after processItem returned, on the Map q and
\* the items `rest` of the page still to process: queue.set and the call of
\* processItem up to NetInfo.fetch, or offset += BATCH_SIZE and the next query
NextItem(q, rest) ==
    IF rest = <<>>
    THEN /\ queue' = q
         /\ offset' = offset + BATCH_SIZE
         /\ passPc' = "query"
         /\ page' = <<>>
         /\ cur' = NoRow
         /\ alias' = FALSE
    ELSE /\ queue' = [q EXCEPT ![Head(rest).id] = Head(rest)]
         /\ cur' = Head(rest)
         /\ alias' = TRUE
         /\ page' = Tail(rest)
         /\ passPc' = "netfetch"
         /\ UNCHANGED offset

\* getPendingUploads(BATCH_SIZE, offset) reads the table
PassQuery ==
    /\ passPc = "query"
    /\ \E dbItems \in getPendingUploads(store, BATCH_SIZE, offset) :
         page' = dbItems
    /\ passPc' = "page"
    /\ UNCHANGED <<now, connected, stub, store, queue, isProcessing,
                   networkListener, subs, retryTimer, enq, init, passNow, offset,
                   cur, alias, netRes, pendWrite, metaCalls, videoCalls>>
    /\ UNCHANGED passOnline
    /\ UNCHANGED <<apiVars, retryAt>>
    /\ UNCHANGED <<xferRes, liveTimers, screenVars>>
    /\ UNCHANGED passLog

\* lines 193-210: empty page ends the pass (finally), else filter and loop
PassResume ==
    /\ passPc = "page"
    /\ IF page = <<>>
       THEN /\ isProcessing' = FALSE
            /\ passPc' = "idle"
            /\ passNow' = 0
            /\ offset' = 0
            /\ passLog' = NoLog
            /\ UNCHANGED <<queue, page, cur, alias>>
       ELSE /\ NextItem(queue, SelectSeq(page, LAMBDA r : Eligible(r, passNow)))
            /\ UNCHANGED <<isProcessing, passNow, passLog>>
    /\ UNCHANGED <<now, connected, stub, store, networkListener, subs,
                   retryTimer, enq, init, netRes, pendWrite, metaCalls,
                   videoCalls>>
    /\ passOnline' = (page # <<>> /\ passOnline)
    /\ UNCHANGED <<apiVars, retryAt>>
    /\ UNCHANGED <<xferRes, liveTimers, screenVars>>

\* NetInfo.fetch() of processItem reads the network state
NetFetch ==
    /\ passPc = "netfetch"
    /\ netRes' = connected
    /\ passPc' = "netres"
    /\ UNCHANGED <<now, connected, stub, store, queue, isProcessing,
                   networkListener, subs, retryTimer, enq, init, passNow, offset,
                   page, cur, alias, pendWrite, metaCalls, videoCalls>>
    /\ UNCHANGED passOnline
    /\ UNCHANGED <<apiVars, retryAt>>
    /\ UNCHANGED <<xferRes, liveTimers, screenVars>>
    /\ UNCHANGED passLog

\* mutant: the video transfer is not started along with the metadata transfer
NetResume_VideoAfterMeta ==
    /\ passPc = "netres"
    /\ netRes' = FALSE
    /\ IF ~netRes
       THEN /\ NextItem(queue, page)
            /\ UNCHANGED <<metaCalls, videoCalls, passLog>>
       ELSE IF cur.retry_count >= maxRetries
       THEN /\ NextItem(updateItemStatus(queue, cur.id, "failed", "undefined"), page)
            /\ UNCHANGED <<metaCalls, videoCalls, passLog>>
       ELSE /\ queue' = updateItemStatus(queue, cur.id, "uploading", "undefined")
            /\ metaCalls' = [metaCalls EXCEPT ![cur.id] = @ + 1]
            /\ UNCHANGED videoCalls
            /\ passPc' = "xfer"
            /\ passLog' = LogAttempt(passLog, cur.id)
            /\ UNCHANGED <<offset, page, cur, alias>>
    /\ UNCHANGED <<now, connected, stub, store, isProcessing, networkListener,
                   subs, retryTimer, enq, init, passNow, pendWrite>>
    /\ UNCHANGED passOnline
    /\ UNCHANGED <<apiVars, retryAt>>
    /\ UNCHANGED <<xferRes, liveTimers, screenVars>>

\* mutant: the retry limit is not checked before the transfers are started
NetResume_NoRetryLimit ==
    /\ passPc = "netres"
    /\ netRes' = FALSE
    /\ IF ~netRes
       THEN /\ NextItem(queue, page)
            /\ UNCHANGED <<metaCalls, videoCalls, passLog>>
       ELSE IF FALSE
       THEN /\ NextItem(updateItemStatus(queue, cur.id, "failed", "undefined"), page)
            /\ UNCHANGED <<metaCalls, videoCalls, passLog>>
       ELSE /\ queue' = updateItemStatus(queue, cur.id, "uploading", "undefined")
            /\ metaCalls' = [metaCalls EXCEPT ![cur.id] = @ + 1]
            /\ videoCalls' = [videoCalls EXCEPT ![cur.id] =
                                 IF cur.video_uri THEN @ + 1 ELSE @]
            /\ passPc' = "xfer"
            /\ passLog' = LogAttempt(passLog, cur.id)
            /\ UNCHANGED <<offset, page, cur, alias>>
    /\ UNCHANGED <<now, connected, stub, store, isProcessing, networkListener,
                   subs, retryTimer, enq, init, passNow, pendWrite>>
    /\ UNCHANGED passOnline
    /\ UNCHANGED <<apiVars, retryAt>>
    /\ UNCHANGED <<xferRes, liveTimers, screenVars>>

\* lines 226-257: not connected: return; retry limit: memory 'failed', return;
\* else memory 'uploading' and both transfers are started
NetResume ==
    /\ passPc = "netres"
    /\ netRes' = FALSE
    /\ IF ~netRes
       THEN /\ NextItem(queue, page)
            /\ UNCHANGED <<metaCalls, videoCalls, passLog>>
       ELSE IF cur.retry_count >= maxRetries
       THEN /\ NextItem(updateItemStatus(queue, cur.id, "failed", "undefined"), page)
            /\ UNCHANGED <<metaCalls, videoCalls, passLog>>
       ELSE /\ queue' = updateItemStatus(queue, cur.id, "uploading", "undefined")
            /\ metaCalls' = [metaCalls EXCEPT ![cur.id] = @ + 1]
            /\ videoCalls' = [videoCalls EXCEPT ![cur.id] =
                                 IF cur.video_uri THEN @ + 1 ELSE @]
            /\ passPc' = "xfer"
            /\ passLog' = LogAttempt(passLog, cur.id)
            /\ UNCHANGED <<offset, page, cur, alias>>
    /\ UNCHANGED <<now, connected, stub, store, isProcessing, networkListener,
                   subs, retryTimer, enq, init, passNow, pendWrite>>
    /\ UNCHANGED passOnline
    /\ UNCHANGED <<apiVars, retryAt>>
    /\ UNCHANGED <<xferRes, liveTimers, screenVars>>

\* lines 260-311: Promise.all returns; success: queue.delete and the write of
\* 'completed' is issued; failure: retry_count += 1, memory 'failed', backoff,
\* and the write of 'failed' is issued
TransferResume ==
    /\ passPc = "xfer"
    /\ \E metaOk \in MetaOutcomes(cur.id),
          videoOk \in IF cur.video_uri THEN VideoOutcomes(cur.id) ELSE {TRUE} :
         IF IsSuccess(metaOk, videoOk, cur.video_uri)
         THEN /\ queue' = [queue EXCEPT ![cur.id] = NoRow]
              /\ alias' = FALSE
              /\ pendWrite' = [status |-> "completed", retry_count |-> NULL,
                               error_message |-> "undefined", delay |-> 0]
              /\ xferRes' = [done |-> TRUE, meta |-> metaOk, video |-> videoOk]
              /\ UNCHANGED <<cur, retryAt>>
         ELSE LET errorMessage == IF ~metaOk THEN "metaErr" ELSE "videoErr"
                  rc == cur.retry_count + 1
                  delay == IF rc < maxRetries THEN BackoffDelay(rc) ELSE 0
                  nra == IF rc < maxRetries THEN now + delay ELSE cur.next_retry_at
                  q1 == IF alias
                        THEN [queue EXCEPT ![cur.id] =
                                 [@ EXCEPT !.retry_count = rc, !.next_retry_at = nra]]
                        ELSE queue
              IN  /\ queue' = updateItemStatus(q1, cur.id, "failed", errorMessage)
                  /\ cur' = [cur EXCEPT !.retry_count = rc, !.next_retry_at = nra]
                  /\ pendWrite' = [status |-> "failed", retry_count |-> rc,
                                   error_message |-> errorMessage, delay |-> delay]
                  /\ retryAt' = IF rc < maxRetries
                                 THEN [retryAt EXCEPT ![cur.id] = nra]
                                 ELSE retryAt
                  /\ xferRes' = [done |-> TRUE, meta |-> metaOk, video |-> videoOk]
                  /\ UNCHANGED alias
    /\ passPc' = "write"
    /\ UNCHANGED <<now, connected, stub, store, isProcessing, networkListener,
                   subs, retryTimer, enq, init, passNow, offset, page, netRes,
                   metaCalls, videoCalls>>
    /\ UNCHANGED passOnline
    /\ UNCHANGED apiVars
    /\ UNCHANGED <<liveTimers, screenVars>>
    /\ UNCHANGED passLog

\* the UPDATE of updateUploadQueueStatus runs
WriteEffect ==
    /\ passPc = "write"
    /\ store' = updateUploadQueueStatus(store, cur.id, pendWrite.status,
                    pendWrite.retry_count, pendWrite.error_message, now)
    /\ passPc' = "written"
    /\ UNCHANGED <<now, connected, stub, queue, isProcessing, networkListener,
                   subs, retryTimer, enq, init, passNow, offset, page, cur,
                   alias, netRes, pendWrite, metaCalls, videoCalls>>
    /\ UNCHANGED passOnline
    /\ UNCHANGED <<apiVars, retryAt>>
    /\ UNCHANGED <<xferRes, liveTimers, screenVars>>
    /\ UNCHANGED passLog

\* the await of updateUploadQueueStatus returns: scheduleQueueProcessing after
\* a retryable failure, then processItem returns to the loop
WriteResume ==
    /\ passPc = "written"
    /\ retryTimer' = IF pendWrite.delay > 0
                     THEN scheduleQueueProcessing(pendWrite.delay)
                     ELSE retryTimer
    /\ pendWrite' = NoWrite
    /\ NextItem(queue, page)
    /\ UNCHANGED <<now, connected, stub, store, isProcessing, networkListener,
                   subs, enq, init, passNow, netRes, metaCalls, videoCalls>>
    /\ UNCHANGED passOnline
    /\ UNCHANGED <<apiVars, retryAt>>
    /\ xferRes' = NoXfer
    /\ liveTimers' = IF pendWrite.delay > 0
                     THEN ClearArmedTimer(liveTimers) + 1
                     ELSE liveTimers
    /\ UNCHANGED screenVars
    /\ UNCHANGED passLog

\* ---- removeFromQueue / clearQueue / reads ---------------------------------

\* removeFromQueue(id): queue.delete, the store delete is issued and not
\* awaited, the call returns
RemoveCall ==
    /\ rm.pc # "delete"
    /\ \E id \in Ids :
         /\ HasRow(queue, id) \/ HasRow(store, id)
         /\ queue' = [queue EXCEPT ![id] = NoRow]
         /\ Unalias(id)
         /\ rm' = [pc |-> "delete", id |-> id]
    /\ ret' = Ret("removeFromQueue", "resolved")
    /\ UNCHANGED <<now, connected, stub, store, isProcessing, networkListener,
                   subs, retryTimer, enq, init, passPc, passNow, offset, page,
                   cur, netRes, pendWrite, metaCalls, videoCalls, passOnline,
                   retryAt, clr, readRes, escaped>>
    /\ UNCHANGED <<xferRes, liveTimers, screenVars>>
    /\ UNCHANGED passLog

\* removeFromUploadQueue: DELETE FROM upload_queue WHERE id = ? runs
RemoveEffect ==
    /\ rm.pc = "delete"
    /\ store' = [store EXCEPT ![rm.id] = NoRow]
    /\ rm' = NoRm
    /\ UNCHANGED <<now, connected, stub, queue, isProcessing, networkListener,
                   subs, retryTimer, enq, init, passVars, metaCalls, videoCalls,
                   passOnline, retryAt, ret, clr, readRes, escaped>>
    /\ UNCHANGED <<xferRes, liveTimers, screenVars>>
    /\ UNCHANGED passLog

\* mutant: a failed store delete puts the stored row back in memory
RemoveFails_Restores ==
    /\ rm.pc = "delete"
    /\ rm' = [rm EXCEPT !.pc = "failed"]
    /\ queue' = [queue EXCEPT ![rm.id] = store[rm.id]]
    /\ UNCHANGED <<now, connected, stub, store, isProcessing, networkListener,
                   subs, retryTimer, enq, init, passVars, metaCalls, videoCalls,
                   passOnline, retryAt, ret, clr, readRes, escaped>>
    /\ UNCHANGED <<xferRes, liveTimers, screenVars>>
    /\ UNCHANGED passLog

\* removeFromUploadQueue rejects; the .catch of removeFromQueue logs it
RemoveFails ==
    /\ rm.pc = "delete"
    /\ rm' = [rm EXCEPT !.pc = "failed"]
    /\ UNCHANGED <<now, connected, stub, store, queue, isProcessing,
                   networkListener, subs, retryTimer, enq, init, passVars,
                   metaCalls, videoCalls, passOnline, retryAt, ret, clr,
                   readRes, escaped>>
    /\ UNCHANGED <<xferRes, liveTimers, screenVars>>
    /\ UNCHANGED passLog

\* clearQueue(): queue.clear(), the bulk delete is issued
ClearCall ==
    /\ clr.pc = "idle"
    /\ queue' = [id \in Ids |-> NoRow]
    /\ alias' = FALSE
    /\ clr' = [pc |-> "delete", held |-> RowIds(queue)]
    /\ UNCHANGED <<now, connected, stub, store, isProcessing, networkListener,
                   subs, retryTimer, enq, init, passPc, passNow, offset, page,
                   cur, netRes, pendWrite, metaCalls, videoCalls, passOnline,
                   retryAt, ret, rm, readRes, escaped>>
    /\ UNCHANGED <<xferRes, liveTimers, screenVars>>
    /\ UNCHANGED passLog

\* mutant: the bulk delete spares the rows that are `completed`
ClearEffect_KeepsCompleted ==
    /\ clr.pc = "delete"
    /\ store' = [id \in Ids |->
                    IF store[id].status = "completed" THEN store[id] ELSE NoRow]
    /\ clr' = [clr EXCEPT !.pc = "ok"]
    /\ UNCHANGED <<now, connected, stub, queue, isProcessing, networkListener,
                   subs, retryTimer, enq, init, passVars, metaCalls, videoCalls,
                   passOnline, retryAt, ret, rm, readRes, escaped>>
    /\ UNCHANGED <<xferRes, liveTimers, screenVars>>
    /\ UNCHANGED passLog

\* DELETE FROM upload_queue; runs
ClearEffect ==
    /\ clr.pc = "delete"
    /\ store' = [id \in Ids |-> NoRow]
    /\ clr' = [clr EXCEPT !.pc = "ok"]
    /\ UNCHANGED <<now, connected, stub, queue, isProcessing, networkListener,
                   subs, retryTimer, enq, init, passVars, metaCalls, videoCalls,
                   passOnline, retryAt, ret, rm, readRes, escaped>>
    /\ UNCHANGED <<xferRes, liveTimers, screenVars>>
    /\ UNCHANGED passLog

\* getDatabase() or execAsync throws
ClearFails ==
    /\ clr.pc = "delete"
    /\ clr' = [clr EXCEPT !.pc = "err"]
    /\ UNCHANGED <<now, connected, stub, store, queue, isProcessing,
                   networkListener, subs, retryTimer, enq, init, passVars,
                   metaCalls, videoCalls, passOnline, retryAt, ret, rm, readRes,
                   escaped>>
    /\ UNCHANGED <<xferRes, liveTimers, screenVars>>
    /\ UNCHANGED passLog

\* the await returns, or the catch block logs and rethrows
ClearResume ==
    /\ clr.pc \in {"ok", "err"}
    /\ ret' = Ret("clearQueue", IF clr.pc = "ok" THEN "resolved" ELSE "rejected")
    /\ clr' = NoClr
    /\ UNCHANGED <<now, connected, stub, store, queue, isProcessing,
                   networkListener, subs, retryTimer, enq, init, passVars,
                   metaCalls, videoCalls, passOnline, retryAt, rm, readRes,
                   escaped>>
    /\ UNCHANGED <<xferRes, liveTimers, screenVars>>
    /\ UNCHANGED passLog

\* getQueueItems(): Array.from(this.queue.values())
getQueueItems(q) == {q[id] : id \in RowIds(q)}

\* getQueueItem(id): this.queue.get(id); the empty set stands for undefined
getQueueItem(q, id) == IF HasRow(q, id) THEN {q[id]} ELSE {}

\* mutant: only the items that are `pending` are counted
getPendingCount_PendingOnly(q) ==
    Cardinality({id \in RowIds(q) : q[id].status = "pending"})

\* getPendingCount(): the values with status 'pending' or 'failed'
getPendingCount(q) ==
    Cardinality({id \in RowIds(q) : q[id].status = "pending" \/ q[id].status = "failed"})

\* a caller invokes one of the three synchronous reads
ReadQueue ==
    /\ \E op \in {"getQueueItems", "getQueueItem", "getPendingCount"}, id \in Ids :
         readRes' =
            CASE op = "getQueueItems" ->
                    [op |-> op, id |-> 0, items |-> getQueueItems(queue), count |-> 0]
              [] op = "getQueueItem" ->
                    [op |-> op, id |-> id, items |-> getQueueItem(queue, id), count |-> 0]
              [] OTHER ->
                    [op |-> op, id |-> 0, items |-> {}, count |-> getPendingCount(queue)]
    /\ UNCHANGED <<now, connected, stub, store, queue, isProcessing,
                   networkListener, subs, retryTimer, enq, init, passVars,
                   metaCalls, videoCalls, passOnline, retryAt, ret, rm, clr,
                   escaped>>
    /\ UNCHANGED <<xferRes, liveTimers, screenVars>>
    /\ UNCHANGED passLog

\* ---- history screen: loadSessions / handleRetryAll ------------------------

\* loadSessions(): setPendingUploads(await getAllUploadRecords()), every row
\* of upload_queue; runs when the screen gets the focus or is refreshed
LoadSessions ==
    /\ retry.pc = "idle"
    /\ pendingUploads' = store
    /\ pendingUploads' # pendingUploads
    /\ UNCHANGED <<now, connected, stub, store, queue, isProcessing,
                   networkListener, subs, retryTimer, enq, init, passVars,
                   metaCalls, videoCalls, passOnline, retryAt, apiVars, xferRes,
                   liveTimers, retry>>
    /\ UNCHANGED passLog

\* handleRetryAll, lines 75-80: failedItems are the rows of the state
\* pendingUploads whose status is 'failed'
RetryCall ==
    /\ retry.pc = "idle"
    /\ retry.presses < MaxPresses
    /\ retry' = [pc |-> "update",
                 items |-> {id \in Ids : pendingUploads[id].status = "failed"},
                 presses |-> retry.presses + 1]
    /\ UNCHANGED <<now, connected, stub, store, queue, isProcessing,
                   networkListener, subs, retryTimer, enq, init, passVars,
                   metaCalls, videoCalls, passOnline, retryAt, apiVars, xferRes,
                   liveTimers, pendingUploads>>
    /\ UNCHANGED passLog

\* the status handleRetryAll writes (line 82)
ResetStatus == "pending"

\* line 82: await updateUploadQueueStatus(item.id, 'pending', 0, null), for
\* the next of failedItems
RetryUpdate ==
    /\ retry.pc = "update"
    /\ \E id \in retry.items :
         /\ store' = updateUploadQueueStatus(store, id, ResetStatus, 0, "null", now)
         /\ retry' = [retry EXCEPT !.items = @ \ {id}]
    /\ UNCHANGED <<now, connected, stub, queue, isProcessing, networkListener,
                   subs, retryTimer, enq, init, passVars, metaCalls, videoCalls,
                   passOnline, retryAt, apiVars, xferRes, liveTimers,
                   pendingUploads>>
    /\ UNCHANGED passLog

\* line 86: uploadQueue.initialize() is called: loadQueueFromDatabase issues
\* getPendingUploads()
RetryInitialize ==
    /\ retry.pc = "update" /\ retry.items = {}
    /\ init.pc = "idle"
    /\ \E records \in getPendingUploads(store, 0, 0) :
         init' = [pc |-> "loaded", records |-> records, connected |-> FALSE]
    /\ retry' = [retry EXCEPT !.pc = "initialize"]
    /\ UNCHANGED <<now, connected, stub, store, queue, isProcessing,
                   networkListener, subs, retryTimer, enq, passVars, metaCalls,
                   videoCalls, passOnline, retryAt, apiVars, xferRes, liveTimers,
                   pendingUploads>>
    /\ UNCHANGED passLog

\* lines 86-89: initialize() has returned; loadSessions() reloads the state
RetryResume ==
    /\ retry.pc = "initialize"
    /\ init.pc = "idle"
    /\ pendingUploads' = store
    /\ retry' = [retry EXCEPT !.pc = "idle"]
    /\ UNCHANGED <<now, connected, stub, store, queue, isProcessing,
                   networkListener, subs, retryTimer, enq, init, passVars,
                   metaCalls, videoCalls, passOnline, retryAt, apiVars, xferRes,
                   liveTimers>>
    /\ UNCHANGED passLog

\* ---- failures of the store and of NetInfo ---------------------------------

\* addToUploadQueue: the INSERT fails; the error is logged and rethrown
InsertFails ==
    /\ enq.pc = "insert"
    /\ enq' = [enq EXCEPT !.pc = "err"]
    /\ UNCHANGED <<now, connected, stub, store, queue, isProcessing,
                   networkListener, subs, retryTimer, init, passVars, metaCalls,
                   videoCalls, passOnline, apiVars, retryAt>>
    /\ UNCHANGED <<xferRes, liveTimers, screenVars>>
    /\ UNCHANGED passLog

\* mutant: the guard is not released when an exception leaves processQueue
PassRejects_GuardStuck ==
    /\ isProcessing' = TRUE
    /\ passPc' = "idle"
    /\ passNow' = 0
    /\ offset' = 0
    /\ page' = <<>>
    /\ cur' = NoRow
    /\ alias' = FALSE
    /\ escaped' = TRUE
    /\ passOnline' = FALSE
    /\ passLog' = NoLog

\* processQueue is left by an exception: the finally block runs, the promise
\* rejects, and no caller of processQueue awaits or catches it
PassRejects ==
    /\ isProcessing' = FALSE
    /\ passPc' = "idle"
    /\ passNow' = 0
    /\ offset' = 0
    /\ page' = <<>>
    /\ cur' = NoRow
    /\ alias' = FALSE
    /\ escaped' = TRUE
    /\ passOnline' = FALSE
    /\ passLog' = NoLog

\* getPendingUploads(BATCH_SIZE, offset) fails: logged and rethrown
PassQueryFails ==
    /\ passPc = "query"
    /\ PassRejects
    /\ UNCHANGED <<now, connected, stub, store, queue, networkListener, subs,
                   retryTimer, enq, init, netRes, pendWrite, metaCalls,
                   videoCalls, ret, rm, clr, readRes, retryAt>>
    /\ UNCHANGED <<xferRes, liveTimers, screenVars>>

\* NetInfo.fetch() of processItem rejects (line 225, outside the try block)
NetFetchFails ==
    /\ passPc = "netfetch"
    /\ PassRejects
    /\ UNCHANGED <<now, connected, stub, store, queue, networkListener, subs,
                   retryTimer, enq, init, netRes, pendWrite, metaCalls,
                   videoCalls, ret, rm, clr, readRes, retryAt>>
    /\ UNCHANGED <<xferRes, liveTimers, screenVars>>

\* the UPDATE of updateUploadQueueStatus fails. The write of 'failed' has a
\* .catch that logs; the write of 'completed' is inside the try block, so its
\* failure enters the catch block of processItem (lines 275-312)
WriteFails ==
    /\ passPc = "write"
    /\ IF pendWrite.status = "failed"
       THEN /\ passPc' = "written"
            /\ UNCHANGED <<queue, cur, pendWrite, retryAt>>
       ELSE LET errorMessage == "storeErr"
                rc == cur.retry_count + 1
                delay == IF rc < maxRetries THEN BackoffDelay(rc) ELSE 0
                nra == IF rc < maxRetries THEN now + delay ELSE cur.next_retry_at
                q1 == IF alias
                      THEN [queue EXCEPT ![cur.id] =
                               [@ EXCEPT !.retry_count = rc, !.next_retry_at = nra]]
                      ELSE queue
            IN  /\ queue' = updateItemStatus(q1, cur.id, "failed", errorMessage)
                /\ cur' = [cur EXCEPT !.retry_count = rc, !.next_retry_at = nra]
                /\ pendWrite' = [status |-> "failed", retry_count |-> rc,
                                 error_message |-> errorMessage, delay |-> delay]
                /\ retryAt' = IF rc < maxRetries
                              THEN [retryAt EXCEPT ![cur.id] = nra]
                              ELSE retryAt
                /\ UNCHANGED passPc
    /\ UNCHANGED <<now, connected, stub, store, isProcessing, networkListener,
                   subs, retryTimer, enq, init, passNow, offset, page, alias,
                   netRes, metaCalls, videoCalls, passOnline, apiVars>>
    /\ UNCHANGED <<xferRes, liveTimers, screenVars>>
    /\ UNCHANGED passLog

\* ---- specification ------------------------------------------------------

\* the engine as constructed (lines 13-18), nothing stored, no call in flight
Constructed ==
    /\ now = 0
    /\ connected \in BOOLEAN
    /\ queue = [id \in Ids |-> NoRow]
    /\ isProcessing = FALSE
    /\ retryTimer = NoTimer
    /\ enq = NoEnq
    /\ init = NoInit
    /\ passPc = "idle"
    /\ passNow = 0
    /\ offset = 0
    /\ page = <<>>
    /\ cur = NoRow
    /\ alias = FALSE
    /\ netRes = FALSE
    /\ pendWrite = NoWrite
    /\ metaCalls = [id \in Ids |-> 0]
    /\ videoCalls = [id \in Ids |-> 0]
    /\ passOnline = FALSE
    /\ retryAt = [id \in Ids |-> 0]
    /\ ret = NoRet
    /\ rm = NoRm
    /\ clr = NoClr
    /\ readRes = NoRead
    /\ escaped = FALSE
    /\ xferRes = NoXfer
    /\ liveTimers = 0
    /\ pendingUploads = [id \in Ids |-> NoRow]
    /\ retry = NoRetry
    /\ passLog = NoLog

\* Spec: the running app. initialize() has completed on an empty table (the
\* listener is registered, its pass found nothing); producers enqueue, the
\* network changes, timers fire.
Init ==
    /\ store = [id \in 1..MaxItems |-> NoRow]
    /\ Constructed
    /\ stub \in StubModes
    /\ networkListener = TRUE
    /\ subs = 1

Engine ==
    \/ TimerFire
    \/ PassQuery
    \/ PassResume
    \/ NetFetch
    \/ NetResume
    \/ TransferResume
    \/ WriteEffect
    \/ WriteResume

Next ==
    \/ Tick
    \/ NetChange
    \/ EnqueueCall
    \/ InsertEffect
    \/ EnqueueResume
    \/ Engine

Spec == Init /\ [][Next]_vars

\* SpecLife: the app's lifecycle. The engine is constructed over a table left
\* by an earlier run of the app (possibly interrupted in mid-upload);
\* RootLayout and the history screen call initialize(), unmounting calls
\* cleanup(). At least one row is left (the start on an empty table is Spec).
LeftRow(id, st, rc) ==
    [id |-> id, status |-> st, retry_count |-> rc,
     error_message |-> IF rc = 0 THEN "null" ELSE "metaErr",
     created_at |-> 0, next_retry_at |-> 0,
     uploaded_at |-> IF st = "completed" THEN 0 ELSE NULL, video_uri |-> FALSE]

LeftRows(id) ==
    {NoRow, LeftRow(id, "pending", 0), LeftRow(id, "uploading", 1),
     LeftRow(id, "failed", 1), LeftRow(id, "failed", maxRetries),
     LeftRow(id, "completed", 0)}

InitLife ==
    /\ store \in {t \in [1..MaxItems -> UNION {LeftRows(id) : id \in 1..MaxItems}] :
                    /\ \A id \in 1..MaxItems : t[id] \in LeftRows(id)
                    /\ \E id \in 1..MaxItems : HasRow(t, id)}
    /\ Constructed
    /\ stub = "videoFailsOnce"
    /\ networkListener = FALSE
    /\ subs = 0

NextLife ==
    \/ InitializeCall
    \/ InitializeLoaded
    \/ InitializeFetch
    \/ InitializeResume
    \/ Cleanup
    \/ Next

SpecLife == InitLife /\ [][NextLife]_vars

\* SpecOnline: the running app while the network stays connected and the
\* transfers either always succeed or fail only the first video upload.
InitOnline ==
    /\ Init
    /\ connected
    /\ stub \in {"succeed", "videoFailsOnce"}

NextOnline ==
    \/ Tick
    \/ EnqueueCall
    \/ InsertEffect
    \/ EnqueueResume
    \/ Engine

SpecOnline == InitOnline /\ [][NextOnline]_vars

\* SpecRestore: items are enqueued while the network is down, the transfers
\* succeed, and the network comes back once.
InitRestore ==
    /\ Init
    /\ ~connected
    /\ stub = "succeed"

EnqueueOffline ==
    /\ ~connected
    /\ (EnqueueCall \/ InsertEffect \/ EnqueueResume)

NetRestored ==
    /\ ~connected
    /\ NetChange

NextRestore ==
    \/ EnqueueOffline
    \/ NetRestored
    \/ PassQuery
    \/ PassResume
    \/ NetFetch
    \/ NetResume
    \/ TransferResume
    \/ WriteEffect
    \/ WriteResume

SpecRestore == InitRestore /\ [][NextRestore]_vars

\* SpecFault: the running app, network connected, while calls to the store
\* and to NetInfo may fail.
InitFault ==
    /\ Init
    /\ connected
    /\ stub \in {"succeed", "fail"}

NextFault ==
    \/ NextOnline
    \/ InsertFails
    \/ PassQueryFails
    \/ NetFetchFails
    \/ WriteFails

SpecFault == InitFault /\ [][NextFault]_vars

\* SpecApi: the app is started over a table left by an earlier run, with the
\* network connected; initialize() loads it and starts a pass while the
\* caller removes items and clears the queue; the store deletes may fail.
InitApi ==
    /\ InitLife
    /\ connected

NextApi ==
    \/ InitializeCall
    \/ InitializeLoaded
    \/ InitializeFetch
    \/ InitializeResume
    \/ PassQuery
    \/ PassResume
    \/ NetFetch
    \/ NetResume
    \/ TransferResume
    \/ WriteEffect
    \/ WriteResume
    \/ RemoveCall
    \/ RemoveEffect
    \/ RemoveFails
    \/ ClearCall
    \/ ClearEffect
    \/ ClearFails
    \/ ClearResume

SpecApi == InitApi /\ [][NextApi]_vars

\* SpecRead: the running app, network connected, while a caller reads the
\* queue at arbitrary moments.
NextRead ==
    \/ NextOnline
    \/ ReadQueue

SpecRead == InitOnline /\ [][NextRead]_vars

\* SpecDup: the running app, network connected, while producers may also
\* call addToQueue with an id that is already in use.
NextDup ==
    \/ NextOnline
    \/ EnqueueAgainCall

SpecDup == InitOnline /\ [][NextDup]_vars

\* SpecXfer: the running app, network connected, while each transfer may
\* report success or failure.
InitXfer ==
    /\ Init
    /\ connected
    /\ stub = "any"

SpecXfer == InitXfer /\ [][NextOnline]_vars

\* SpecRetry: the running app, network connected, with the history screen
\* open: the screen reloads its rows when focused and the operator may press
\* "Retry", which resets the failed rows it shows and calls initialize().
InitRetry ==
    /\ Init
    /\ connected
    /\ stub = "videoFailsOnce"

NextRetry ==
    \/ NextOnline
    \/ LoadSessions
    \/ RetryCall
    \/ RetryUpdate
    \/ RetryInitialize
    \/ InitializeLoaded
    \/ InitializeFetch
    \/ InitializeResume
    \/ RetryResume

SpecRetry == InitRetry /\ [][NextRetry]_vars

\* SpecPage: the app is started, network connected, over a table that holds
\* at least one full page of pending rows left by an earlier run (created
\* before the start, oldest first by id); initialize() starts the pass, a
\* producer enqueues one more item meanwhile, each transfer may succeed or
\* fail.
PageRow(id) ==
    [id |-> id, status |-> "pending", retry_count |-> 0,
     error_message |-> "null", created_at |-> id - (MaxPageItems + 1),
     next_retry_at |-> 0, uploaded_at |-> NULL, video_uri |-> FALSE]

InitPage ==
    /\ \E n \in BATCH_SIZE..(MaxPageItems - 1) :
         store = [id \in 1..(n + 1) |-> IF id <= n THEN PageRow(id) ELSE NoRow]
    /\ Constructed
    /\ connected
    /\ stub = "any"
    /\ networkListener = FALSE
    /\ subs = 0

NextPage ==
    \/ InitializeCall
    \/ InitializeLoaded
    \/ InitializeFetch
    \/ InitializeResume
    \/ EnqueueCall
    \/ InsertEffect
    \/ EnqueueResume
    \/ PassQuery
    \/ PassResume
    \/ NetFetch
    \/ NetResume
    \/ TransferResume
    \/ WriteEffect
    \/ WriteResume

SpecPage == InitPage /\ [][NextPage]_vars

\* no call of the engine is in flight and no timer is armed: nothing happens
\* until the next enqueue or connectivity event
Quiescent ==
    /\ passPc = "idle"
    /\ enq.pc = "idle"
    /\ init.pc = "idle"
    /\ ~retryTimer.armed

\* ---- claims -------------------------------------------------------------

\* C1 (as claimed): with the network connected and both transfers always
\* succeeding, once nothing is in flight and no timer is armed every enqueued
\* item is `completed` in the store and absent from the in-memory queue.
C1_AllCompletedWhenQuiet ==
    (stub = "succeed" /\ Quiescent) =>
        \A id \in Ids :
            HasRow(store, id) =>
                store[id].status = "completed" /\ ~HasRow(queue, id)

\* C2 (as claimed): when the transfers always fail, an item that has failed
\* for the third time has had exactly 3 transfer attempts, is `failed` with
\* retry_count 3, and once every stored item is in that state no retry timer
\* is armed.
C2_ExhaustedThenNoTimer ==
    (/\ stub = "fail"
     /\ passPc = "idle"
     /\ RowIds(store) # {}
     /\ \A id \in RowIds(store) :
            store[id].status = "failed" /\ store[id].retry_count = maxRetries)
    => (/\ ~retryTimer.armed
        /\ \A id \in RowIds(store) : metaCalls[id] = maxRetries)

C4_UploadingResetByInitialize ==
    [][(init.pc = "fetched" /\ init'.pc = "idle") =>
           \A id \in Ids : store'[id].status # "uploading"]_vars

SameFields(a, b) ==
    /\ a.status = b.status
    /\ a.retry_count = b.retry_count
    /\ a.next_retry_at = b.next_retry_at

\* C5 (as claimed): a step of a pass during which the network has been
\* disconnected throughout invokes no transfer and changes the status,
\* retry_count and next_retry_at of no item, in memory or in the store.
C5_OfflinePassIsReadOnly ==
    [][(passPc # "idle" /\ passPc' # passPc /\ ~passOnline /\ ~passOnline') =>
           /\ metaCalls' = metaCalls
           /\ videoCalls' = videoCalls
           /\ \A id \in Ids :
                /\ SameFields(store[id], store'[id])
                /\ HasRow(queue, id) => SameFields(queue[id], queue'[id])]_vars

\* C6: at most one item has status `uploading`, in memory and in the store
\* taken together.
C6_AtMostOneUploading ==
    Cardinality({id \in Ids :
        queue[id].status = "uploading" \/ store[id].status = "uploading"}) <= 1

\* C6 witness: one item is uploading, its transfers not yet returned, while
\* another item waits in memory and in the store
C6_OneUploadingOneWaiting ==
    \E a, b \in Ids :
        /\ a # b
        /\ passPc = "xfer" /\ cur.id = a /\ queue[a].status = "uploading"
        /\ HasRow(queue, b) /\ PendingFilter(store[b].status)

\* C7 (as claimed): an item without video enqueued while the network is down
\* stays `pending` with no transfer invoked; once the network is restored and
\* nothing is in flight any more, it has been uploaded by exactly one metadata
\* transfer and no video transfer: it is `completed` with uploaded_at set and
\* is no longer in memory.
C7_UploadedOnceRestored ==
    \A id \in Ids :
        (HasRow(store, id) /\ ~store[id].video_uri) =>
            /\ ~connected =>
                   /\ store[id].status = "pending"
                   /\ metaCalls[id] = 0 /\ videoCalls[id] = 0
            /\ (connected /\ Quiescent) =>
                   /\ store[id].status = "completed"
                   /\ store[id].uploaded_at # NULL
                   /\ metaCalls[id] = 1 /\ videoCalls[id] = 0
                   /\ ~HasRow(queue, id)

\* C8 (as claimed): when the first video transfer of an item fails and later
\* ones succeed, then after the first attempt the item is `failed` with
\* retry_count 1 and its next_retry_at, in the store as in memory, is the time
\* of the failure plus 5000 ms; and once the retry timer has fired and nothing
\* is in flight the item is `completed`.
C8_FailsOnceThenCompletes ==
    stub = "videoFailsOnce" =>
        \A id \in Ids :
            (HasRow(store, id) /\ store[id].video_uri) =>
                /\ (store[id].status = "failed" /\ HasRow(queue, id)) =>
                       /\ store[id].retry_count = 1
                       /\ queue[id].retry_count = 1
                       /\ queue[id].next_retry_at >= 5000
                       /\ store[id].next_retry_at = queue[id].next_retry_at
                /\ (Quiescent /\ videoCalls[id] >= 1) =>
                       store[id].status = "completed"

\* steps in which a trigger of processQueue arrives
TrigEnqueue == enq.pc = "ok" /\ enq'.pc = "idle"
TrigNetwork == ~connected /\ connected' /\ subs > 0
TrigTimer == retryTimer.armed /\ ~retryTimer'.armed /\ now >= retryTimer.at + retryTimer.delay
TrigInitialize == init.pc = "fetched" /\ init.connected /\ init'.pc = "idle"
Trigger == TrigEnqueue \/ TrigNetwork \/ TrigTimer \/ TrigInitialize

\* C9: single-flight. The guard is set exactly while the one pass runs; a
\* trigger (enqueue, connectivity event, retry timer, initialize) arriving
\* while a pass runs leaves that pass as it is and starts no other; a pass
\* starts only in the step of a trigger, so a refused trigger is not kept
\* for later.
C9_SingleFlight ==
    [][/\ isProcessing' <=> passPc' # "idle"
       /\ (isProcessing /\ Trigger) =>
              UNCHANGED <<isProcessing, passPc, passNow, offset, page, cur>>
       /\ (passPc = "idle" /\ passPc' # "idle") => Trigger]_vars

\* C9 witness: while the transfers of an item are in flight, an addToQueue
\* call and an initialize call are both about to call processQueue
C9_TriggerWhileRunning ==
    /\ isProcessing /\ passPc = "xfer"
    /\ enq.pc = "ok"
    /\ init.pc = "fetched" /\ init.connected

\* C10 (as claimed): an item is in the in-memory queue only once its insert
\* into the store has succeeded: never while the insert is pending or failed.
C10_PersistedBeforeVisible ==
    enq.pc \in {"insert", "err"} => ~HasRow(queue, enq.item.id)

\* C11: when the store insert of an addToQueue call has failed, the call
\* rejects (the error reaches the caller), the item is not in the in-memory
\* queue when the call returns, and the call starts no pass; a call resolves
\* only after its insert succeeded.
C11_FailedInsertRejects ==
    [][/\ (enq.pc = "err" /\ enq'.pc = "idle") =>
            /\ ret' = Ret("addToQueue", "rejected")
            /\ ~HasRow(queue', enq.item.id)
            /\ ~HasRow(store', enq.item.id)
            /\ UNCHANGED <<isProcessing, passPc, passNow, offset, page, cur>>
       /\ (enq.pc # "idle" /\ enq'.pc = "idle" /\ ret'.result = "resolved") =>
            HasRow(store, enq.item.id)]_vars

\* C11 witness: an addToQueue call has been rejected and its item is neither
\* in memory nor in the store, while an earlier item is stored
C11_RejectedAndGone ==
    /\ ret = Ret("addToQueue", "rejected")
    /\ enq.pc = "idle"
    /\ \E a, b \in Ids : a # b /\ HasRow(store, a)
                         /\ ~HasRow(store, b) /\ ~HasRow(queue, b)

\* C12 (as claimed): no step starts an attempt of an item (moves it to
\* `uploading`, invokes a transfer for it) at an instant earlier than the
\* next_retry_at its last retryable failure assigned to it.
C12_NoAttemptBeforeRetryTime ==
    [][\A id \in Ids :
          (\/ metaCalls'[id] > metaCalls[id]
           \/ videoCalls'[id] > videoCalls[id]
           \/ (queue'[id].status = "uploading" /\ queue[id].status # "uploading"))
          => now >= retryAt[id]]_vars

\* the step of a cleanup() call
CleanupStep ==
    \/ networkListener /\ ~networkListener'
    \/ retryTimer.armed /\ ~retryTimer'.armed /\ now < retryTimer.at + retryTimer.delay

\* C13: cleanup() leaves no listener held and no timer armed and touches
\* neither the pass in flight nor the items; an attempt whose transfers are
\* in flight ends only by issuing the write of its outcome, and that write
\* puts `completed`, or `failed` with the incremented retry_count, in the
\* store, whether or not cleanup() was called meanwhile.
C13_CleanupKeepsAttempt ==
    [][/\ CleanupStep =>
            /\ ~networkListener' /\ ~retryTimer'.armed
            /\ networkListener => subs' = subs - 1
            /\ UNCHANGED <<passVars, isProcessing, queue, store, metaCalls,
                           videoCalls>>
       /\ (passPc = "xfer" /\ passPc' # "xfer") =>
            /\ passPc' = "write" /\ cur'.id = cur.id
            /\ pendWrite'.status \in {"completed", "failed"}
            /\ pendWrite'.status = "failed" =>
                   pendWrite'.retry_count = cur.retry_count + 1
       /\ (passPc = "write" /\ passPc' # "write") =>
            /\ passPc' = "written"
            /\ store'[cur.id].status = pendWrite.status
            /\ pendWrite.status = "failed" =>
                   store'[cur.id].retry_count = pendWrite.retry_count
            /\ pendWrite.status = "completed" => store'[cur.id].uploaded_at = now]_vars

\* C13 witness: cleanup() was the last call to return and was called while
\* the transfers of an item were in flight; no listener is left, and that
\* attempt has since written its failure with the incremented retry_count
C13_OutcomeWrittenAfterCleanup ==
    /\ ret.op = "cleanup" /\ ret.attempt = cur.id
    /\ ~networkListener /\ subs = 0
    /\ passPc = "written" /\ pendWrite.status = "failed"
    /\ store[cur.id].status = "failed"
    /\ store[cur.id].retry_count = 1
    /\ \A id \in Ids : metaCalls[id] = IF id = cur.id THEN 1 ELSE 0

\* C14: the step of a removeFromQueue(id) call leaves id absent from the
\* in-memory queue and returns normally; the step in which its store delete
\* fails changes nothing in memory, rejects no call and leaves no unhandled
\* rejection: the row simply stays in the store.
C14_RemoveNeverFails ==
    [][/\ (rm'.pc = "delete" /\ rm.pc # "delete") =>
            /\ ~HasRow(queue', rm'.id)
            /\ ret' = Ret("removeFromQueue", "resolved")
            /\ UNCHANGED escaped
       /\ (rm.pc = "delete" /\ rm'.pc = "failed") =>
            /\ ~HasRow(queue, rm.id) => ~HasRow(queue', rm.id)
            /\ UNCHANGED <<queue, store, ret, escaped>>]_vars

\* C14 witness: the store delete of the last removeFromQueue call has failed;
\* the call had returned normally, the item is gone from memory and its row
\* is still in the store
C14_DeleteFailedItemGone ==
    /\ rm.pc = "failed"
    /\ ret = Ret("removeFromQueue", "resolved")
    /\ ~escaped
    /\ ~HasRow(queue, rm.id)
    /\ HasRow(store, rm.id)

\* C15: the step of a clearQueue() call empties the in-memory queue; its
\* bulk delete, when it runs, leaves no row of any status in the store; the
\* call resolves only after the delete ran and is rejected when it failed.
C15_ClearQueueBulkDelete ==
    [][/\ (clr.pc = "idle" /\ clr'.pc # "idle") =>
            /\ clr'.pc = "delete"
            /\ RowIds(queue') = {}
       /\ (clr.pc = "delete" /\ clr'.pc = "ok") => RowIds(store') = {}
       /\ (clr.pc = "delete" /\ clr'.pc = "err") => UNCHANGED store
       /\ (clr.pc # "idle" /\ clr'.pc = "idle") =>
            /\ clr.pc \in {"ok", "err"}
            /\ ret' = Ret("clearQueue",
                          IF clr.pc = "ok" THEN "resolved" ELSE "rejected")]_vars

\* C15 witness: clearQueue() has resolved over a table that held a completed
\* upload: memory and store are empty
C15_ClearedAll ==
    /\ ret = Ret("clearQueue", "resolved")
    /\ RowIds(store) = {} /\ RowIds(queue) = {}
    /\ \E id \in Ids : metaCalls[id] >= 1

\* C16: a read changes nothing but its own result: memory, store, guard,
\* timer, listener, and the calls in flight on the store are as before; and
\* the result is the in-memory snapshot: all items present, the item of the
\* given id (or none), the number of items that are `pending` or `failed`.
C16_ReadsArePure ==
    [][readRes' # readRes =>
          /\ UNCHANGED <<queue, store, isProcessing, retryTimer, networkListener,
                         subs, passVars, enq, init, rm, clr, pendWrite, escaped,
                         metaCalls, videoCalls>>
          /\ readRes'.op = "getQueueItems" =>
                 \A id \in Ids :
                     queue[id] \in readRes'.items <=> queue[id].status # "absent"
          /\ readRes'.op = "getQueueItem" =>
                 readRes'.items = IF queue[readRes'.id].status # "absent"
                                  THEN {queue[readRes'.id]} ELSE {}
          /\ readRes'.op = "getPendingCount" =>
                 readRes'.count =
                     Cardinality({id \in Ids : queue[id].status \in {"pending", "failed"}})]_vars

\* C16 witness: getPendingCount() has returned 1 while one item is being
\* uploaded and another one is `failed` in memory
C16_CountSkipsUploading ==
    /\ readRes.op = "getPendingCount" /\ readRes.count = 1
    /\ passPc = "xfer"
    /\ \E a, b \in Ids : queue[a].status = "uploading" /\ queue[b].status = "failed"

\* the rows of table t that are not terminal: pending, uploading, and failed
\* with retries left
NonTerminal(t) ==
    {id \in Ids :
        \/ t[id].status \in {"pending", "uploading"}
        \/ t[id].status = "failed" /\ t[id].retry_count < maxRetries}

\* C17 (as claimed): initialize() reads exactly the non-terminal rows of the
\* store and puts exactly those in memory, registers a connectivity listener,
\* and calls processQueue if and only if NetInfo reported connected.
C17_InitializeLoadsNonTerminal ==
    [][/\ (init.pc = "idle" /\ init'.pc = "loaded") =>
            {init'.records[i].id : i \in 1..Len(init'.records)} = NonTerminal(store)
       /\ (init.pc = "loaded" /\ init'.pc = "netfetch") =>
            /\ RowIds(queue') = {init.records[i].id : i \in 1..Len(init.records)}
            /\ networkListener' /\ subs' = subs + 1
       /\ (init.pc = "fetched" /\ init'.pc = "idle") =>
            /\ (init.connected /\ passPc = "idle") => passPc' = "query"
            /\ ~init.connected => UNCHANGED <<passPc, isProcessing>>]_vars

\* C18 (as claimed): whatever call fails during a pass (the page query, the
\* connectivity poll, a transfer, a store write), processQueue never ends by
\* a rejection that nobody handles.
C18_NoFailureEscapes == ~escaped

\* C19 (as claimed): for every item in memory of which no attempt and no
\* enqueue is in flight, status, retry_count and next_retry_at in memory equal
\* those of its store row; and a row that is `failed` with retries left holds
\* the error message and the next_retry_at that the failure assigned.
C19_MemoryStoreConverge ==
    \A id \in Ids :
        (/\ HasRow(queue, id) /\ HasRow(store, id)
         /\ ~(passPc # "idle" /\ cur.id = id)
         /\ ~(enq.pc # "idle" /\ enq.item.id = id))
        => /\ SameFields(queue[id], store[id])
           /\ (store[id].status = "failed" /\ store[id].retry_count < maxRetries) =>
                  /\ store[id].error_message = queue[id].error_message
                  /\ store[id].next_retry_at = retryAt[id]

\* C20 (as claimed): while the transfers of an attempt are in flight, the
\* store row of the item has status `uploading`: the transition was written
\* before the transfers were issued.
C20_UploadingPersistedFirst ==
    passPc = "xfer" => store[cur.id].status = "uploading"

C22_SuccessIffBothOk ==
    [][(passPc = "xfer" /\ passPc' # "xfer") =>
          LET ok == xferRes'.meta /\ (~cur.video_uri \/ xferRes'.video)
          IN  /\ xferRes'.done
              /\ ok => /\ pendWrite'.status = "completed"
                       /\ ~HasRow(queue', cur.id)
                       /\ cur' = cur
              /\ ~ok => /\ pendWrite'.status = "failed"
                        /\ pendWrite'.retry_count = cur.retry_count + 1
                        /\ cur'.retry_count = cur.retry_count + 1
                        /\ alias => /\ queue'[cur.id].status = "failed"
                                    /\ queue'[cur.id].retry_count = cur.retry_count + 1]_vars

\* C22 witness: the metadata transfer failed while the video transfer
\* succeeded, and the item is `failed` in memory with retry_count 1
C22_MetaFailedVideoOk ==
    /\ passPc = "write"
    /\ xferRes.done /\ ~xferRes.meta /\ xferRes.video
    /\ cur.video_uri
    /\ pendWrite.status = "failed"
    /\ queue[cur.id].status = "failed" /\ queue[cur.id].retry_count = 1

\* C23 (as claimed): in every state of the store, a row has uploaded_at set
\* if and only if its status is `completed`, also after the "Retry" action of
\* the history screen has reset rows to `pending` with retry_count 0.
C23_UploadedAtIffCompleted ==
    \A id \in Ids :
        HasRow(store, id) =>
            (store[id].uploaded_at # NULL <=> store[id].status = "completed")

\* C24: no step invokes a transfer for an item whose stored retry_count is
\* >= maxRetries; when a pass reaches such an item (the network being
\* connected) the step sets it `failed` in memory, starts no attempt, writes
\* nothing to the store and arms no timer.
C24_ExhaustedNeverTransferred ==
    [][/\ \A id \in Ids :
            store[id].retry_count >= maxRetries =>
                /\ metaCalls'[id] = metaCalls[id]
                /\ videoCalls'[id] = videoCalls[id]
       /\ (passPc = "netres" /\ passPc' # "netres"
           /\ netRes /\ cur.retry_count >= maxRetries) =>
            /\ passPc' # "xfer"
            /\ HasRow(queue, cur.id) => queue'[cur.id].status = "failed"
            /\ UNCHANGED <<store, metaCalls, videoCalls, retryTimer>>]_vars

\* C24 witness: the pass started by initialize() has gone through the page
\* that holds a row left `failed` with retry_count 3: the item is `failed`
\* in memory and no transfer was invoked for it
C24_ExhaustedRowSkipped ==
    /\ passPc = "query" /\ offset = BATCH_SIZE
    /\ \E id \in Ids :
         /\ store[id] = LeftRow(id, "failed", maxRetries)
         /\ queue[id].status = "failed"
         /\ metaCalls[id] = 0 /\ videoCalls[id] = 0

\* C25 (as claimed): no step lowers the retry_count of an item, in memory or
\* in the store, and the step that ends a failed attempt raises it by exactly
\* 1; also when the store write recording a failure has failed and a later
\* pass reads the item from the store again. (No operator reset occurs.)
C25_RetryCountMonotonic ==
    [][/\ \A id \in Ids :
            /\ (HasRow(queue, id) /\ HasRow(queue', id)) =>
                   queue'[id].retry_count >= queue[id].retry_count
            /\ (HasRow(store, id) /\ HasRow(store', id)) =>
                   store'[id].retry_count >= store[id].retry_count
       /\ (passPc = "xfer" /\ passPc' = "write" /\ pendWrite'.status = "failed") =>
            /\ cur'.retry_count = cur.retry_count + 1
            /\ pendWrite'.retry_count = cur.retry_count + 1]_vars

\* C26: at most one timer of the engine is pending in the runtime, and it is
\* pending exactly while retryTimer records it; arming a timer while one is
\* armed leaves one pending (the old one is cleared), and the step in which
\* the timer fires leaves none recorded and none pending.
C26_OneRetryTimer ==
    [][/\ liveTimers' \in {0, 1}
       /\ retryTimer'.armed <=> liveTimers' = 1
       /\ (passPc = "written" /\ passPc' # "written" /\ pendWrite.delay > 0) =>
            /\ retryTimer' = [armed |-> TRUE, delay |-> pendWrite.delay, at |-> now]
            /\ liveTimers' = 1
       /\ TrigTimer => (~retryTimer'.armed /\ liveTimers' = 0)]_vars

\* C26 witness: both items have failed for the first time at time 0, so the
\* timer armed for the first was still armed when the second armed its own,
\* and one timer is pending
C26_TimerReplaced ==
    /\ now = 0
    /\ passPc = "query"
    /\ \A id \in Ids : store[id].status = "failed" /\ store[id].retry_count = 1
                       /\ metaCalls[id] = 1
    /\ retryTimer.armed /\ liveTimers = 1

\* C27: when the attempt of an item y starts, every item x attempted before
\* it in the same pass has created_at(x) <= created_at(y), whether the
\* earlier attempts of the pass completed or failed.
C27_AttemptsInCreatedOrder ==
    [][(passPc = "netres" /\ passPc' = "xfer") =>
          \A i \in 1..Len(passLog.attempted) :
              store[passLog.attempted[i]].created_at <= cur.created_at]_vars

\* C27 witness: an item of the second page of a pass is being attempted
\* after attempts of the first page completed and failed
C27_SecondPageAttempted ==
    /\ passPc = "xfer" /\ offset = BATCH_SIZE
    /\ \E i, j \in 1..Len(passLog.attempted) :
         /\ store[passLog.attempted[i]].status = "completed"
         /\ store[passLog.attempted[j]].status = "failed"

\* C28 (as claimed): when a pass ends (the network being connected), every
\* row that was pending or failed with next_retry_at <= now when the pass
\* started, and has retries left, has been attempted during the pass,
\* however many such rows there are and whatever the outcome of the earlier
\* attempts.
C28_EveryReadyItemAttempted ==
    [][(passPc = "page" /\ passPc' = "idle") =>
          \A id \in passLog.ready :
              store[id].retry_count < maxRetries =>
                  \E i \in 1..Len(passLog.attempted) : passLog.attempted[i] = id]_vars

Exhausted(r) == r.status = "failed" /\ r.retry_count >= maxRetries

\* C30 (as claimed): no step of the engine removes a terminal item. A step that is not
\* part of removeFromQueue or clearQueue deletes no row of the store (so a
\* `completed` row and an exhausted `failed` row stay), leaves an item that
\* is `failed` with its retries exhausted in the in-memory queue, and the
\* step that stores the exhaustion of an item leaves the item in memory.
C30_TerminalItemsKept ==
    [][(rm' = rm /\ clr' = clr) =>
          \A id \in Ids :
              /\ HasRow(store, id) => HasRow(store', id)
              /\ Exhausted(queue[id]) => HasRow(queue', id)
              /\ (Exhausted(store'[id]) /\ store'[id] # store[id])
                    => HasRow(queue', id)]_vars

\* C31 (as claimed): `completed` is terminal. No step of the engine or of
\* the history screen's "Retry" changes the status of a row that is
\* `completed` in the store, and no transfer function is invoked for its
\* item again.
C31_CompletedIsTerminal ==
    [][\A id \in Ids :
          store[id].status = "completed" =>
              /\ store'[id].status = "completed"
              /\ metaCalls'[id] = metaCalls[id]
              /\ videoCalls'[id] = videoCalls[id]]_vars

\* C32 (as claimed): when addToQueue fails, the step in which it rejects
\* leaves the in-memory queue as it was before the call: the other items
\* are untouched, an id that was not queued is not queued, and an item that
\* was queued under the same id is still queued and is not the item of the
\* failed call.
C32_FailedEnqueueRestoresMemory ==
    [][(enq.pc = "err" /\ enq'.pc = "idle") =>
          /\ \A id \in Ids \ {enq.item.id} : queue'[id] = queue[id]
          /\ IF enq.prev.status = "absent"
             THEN ~HasRow(queue', enq.item.id)
             ELSE /\ HasRow(queue', enq.item.id)
                  /\ queue'[enq.item.id] # enq.item]_vars

\* C33 (as claimed): an item that removeFromQueue or clearQueue has removed
\* (it is absent from the in-memory queue and from the store) and that is
\* not enqueued again does not reappear in the in-memory queue, which is
\* what getQueueItems returns, and no transfer is started for it, also
\* while a pass that had read it is in flight.
C33_RemovedStaysRemoved ==
    [][\A id \in Ids :
          (~HasRow(store, id) /\ ~HasRow(queue, id) /\ enq'.item.id # id) =>
              /\ ~HasRow(queue', id)
              /\ metaCalls'[id] = metaCalls[id]
              /\ videoCalls'[id] = videoCalls[id]]_vars

\* C34 (as claimed): after cleanup() the engine comes to rest. When
\* cleanup() is the last call of the app that returned, no initialize() or
\* addToQueue() is in flight and the pass that was running has ended, no
\* retry timer is armed (so no pass starts by itself).
C34_QuiescentAfterCleanup ==
    (ret.op = "cleanup" /\ init.pc = "idle" /\ enq.pc = "idle" /\ passPc = "idle") =>
        ~retryTimer.armed

\* C35 (as claimed): at most one connectivity listener of the engine is
\* subscribed at any time, and none is while the engine holds no listener
\* (as after cleanup()).
C35_AtMostOneListener ==
    /\ subs <= 1
    /\ ~networkListener => subs = 0

\* C36: the in-progress guard is true exactly while a pass is running. It
\* is released in the step in which a pass ends, whether the pass ends at
\* an empty page or because the page query or the connectivity poll fails,
\* and a failed store write does not end the pass; so a trigger that
\* arrives when no pass is running always starts one.
C36_GuardReleasedWhenPassEnds ==
    [][/\ isProcessing' <=> passPc' # "idle"
       /\ (passPc # "idle" /\ passPc' = "idle") => ~isProcessing'
       /\ (passPc = "write" /\ passPc' # "write") => passPc' = "written"
       /\ (passPc = "idle" /\ Trigger) => (isProcessing' /\ passPc' = "query")]_vars

\* C36 witness: after a pass was ended by a failed call, a later trigger
\* has started a new pass, which is attempting an item whose last store
\* write failed
C36_NewPassAfterFailedPass ==
    /\ escaped
    /\ isProcessing /\ passPc = "xfer"
    /\ stub = "fail" /\ metaCalls[cur.id] > store[cur.id].retry_count + 1

\* C37 (as claimed): a retryable failure is followed by a new attempt with
\* no external trigger. As long as an item is stored as `failed` with
\* retries left, the retry is still to come: a pass is running, or the
\* retry timer is armed, or the call that will start a pass is in flight.
\* (In a state where none of these holds the engine takes no further step
\* by itself.)
C37_RetryStillToCome ==
    \A id \in Ids :
        (store[id].status = "failed" /\ store[id].retry_count < maxRetries) =>
            (passPc # "idle" \/ retryTimer.armed \/ enq.pc # "idle")

\* C38 (as claimed): retry_count counts transfer failures only. While both
\* transfer functions always succeed, whatever store call fails, no item
\* has a retry_count above 0 or the status `failed`, in the store or in
\* memory, and an item whose row is not `completed` is in the in-memory
\* queue (but for the moment between queue.delete and the write of
\* `completed` that is in flight).
C38_OnlyTransferFailuresCount ==
    stub = "succeed" =>
        \A id \in Ids :
            /\ store[id].retry_count = 0 /\ queue[id].retry_count = 0
            /\ store[id].status # "failed" /\ queue[id].status # "failed"
            /\ (/\ HasRow(store, id) /\ store[id].status # "completed"
                /\ ~(passPc = "write" /\ cur.id = id /\ pendWrite.status = "completed"))
                   => HasRow(queue, id)

\* C39 (as claimed): when clearQueue() fails because its bulk delete fails,
\* the in-memory queue still holds the items it held before the call: at
\* the step in which the call rejects, every id that was queued when it was
\* called is queued.
C39_FailedClearKeepsMemory ==
    [][(clr.pc = "err" /\ clr'.pc = "idle") => clr.held \subseteq RowIds(queue')]_vars

====
